---- MODULE Spec2Model ----
(***************************************************************************)
(* Model of models/deformable_detr.py: the output assembly of              *)
(* DeformableDETR.forward (adversarial batch split, aux/enc/da outputs)    *)
(* and the loss aggregation of SetCriterion.forward.                       *)
(*                                                                         *)
(* Tensors are abstracted to what the aggregation logic depends on: a      *)
(* prediction tensor is the decoder layer it comes from and the sequence   *)
(* of images (batch entries) it holds; a loss value is the term, the       *)
(* layer of the predictions and the layer the assignment was matched on.   *)
(* Python dicts are functions from key strings; dicts whose insertion      *)
(* order matters are sequences of <<key, value>> items.                    *)
(***************************************************************************)
EXTENDS Integers, Sequences, FiniteSets, TLC

\* ---------------------------------------------------------------- bounds
MaxBatch == 4
MaxDecLayers == 3
MaxWorld == 2
MaxOtherBoxes == 3

\* number of query slots of the model (cfg.MODEL.NUM_QUERIES, scaled down)
NumQueries == 3
\* layer tag of the encoder proposals (the decoder layers are 0..L-1)
EncLayer == -1
\* layer tag of a value that is not computed from predictions
NoLayer == -2

DaModes == {"uda", "source_only"}
Modes == {"train", "test", "val"}
QueryGroups == <<"space_query", "channel_query", "instance_query">>
GroupOrder == <<"space_query", "channel_query", "instance_query", "backbone">>
LabelChoices == {<< >>, <<2, 1>>}
LossLists == { <<"labels", "boxes", "cardinality">>,
               <<"labels", "boxes", "cardinality", "masks">>,
               <<"cardinality", "boxes">>,
               <<"labels", "foo", "boxes">> }

\* ---------------------------------------------------------------- helpers
Range(n) == [i \in 1..n |-> i]
Prefix(s, n) == SubSeq(s, 1, n)
Max(a, b) == IF a >= b THEN a ELSE b
RECURSIVE SumLen(_, _)
SumLen(ts, k) == IF k = 0 THEN 0 ELSE Len(ts[k].labels) + SumLen(ts, k - 1)
Items(f, order) == SelectSeq(order, LAMBDA k : k \in DOMAIN f)

\* ------------------------------------------------------- DeformableDETR
\* a prediction tensor: head output of one layer over a sequence of images
Pred(head, layer, imgs) == [head |-> head, layer |-> layer, images |-> imgs]
\* the {'pred_logits': a, 'pred_boxes': b} dictionary of one stage
StageDict(a, b) == ("pred_logits" :> a) @@ ("pred_boxes" :> b)

\* fields set by DeformableDETR.__init__
DeformableDETRInit(training, da_mode, aux_loss, two_stage, ba, sa, ca, ia, debug, accumulate, L) ==
  [training |-> training, da_mode |-> da_mode, aux_loss |-> aux_loss,
   two_stage |-> two_stage, uda |-> (ba \/ sa \/ ca \/ ia),
   backbone_align |-> ba, space_align |-> sa, channel_align |-> ca,
   instance_align |-> ia, debug |-> debug, accumulate |-> accumulate,
   dec_layers |-> L]

AlignFlag(m, g) ==
  CASE g = "backbone" -> m.backbone_align
    [] g = "space_query" -> m.space_align
    [] g = "channel_query" -> m.channel_align
    [] g = "instance_query" -> m.instance_align

\* the transformer's da_output: the raw query-level features of the
\* enabled query groups, stacked over the whole batch
TransformerDaOutput(m, B) ==
  [g \in {QueryGroups[i] : i \in {j \in 1..Len(QueryGroups) : AlignFlag(m, QueryGroups[j])}}
     |-> [group |-> g, batch |-> B, disc |-> FALSE]]

SetAuxLossAll(outputs_class, outputs_coord) ==
  [i \in 1..Len(outputs_class) |-> StageDict(outputs_class[i], outputs_coord[i])]

\* outputs_class[:-1] zipped with outputs_coord[:-1]
SetAuxLoss(outputs_class, outputs_coord) ==
  [i \in 1..(Len(outputs_class) - 1) |-> StageDict(outputs_class[i], outputs_coord[i])]

SplitIgnoringMode(m) == m.training /\ m.uda

\* the adversarial split branch is taken
Split(m) == m.training /\ m.uda /\ m.da_mode = "uda"
SplitAtCeil(B) == (B + 1) \div 2

\* index at which the batch is cut
SplitAt(B) == B \div 2

DaOutputRaw(m, B) == TransformerDaOutput(m, B)

\* out['da_output'] after lines 266-278
DaOutput(m, B) ==
  LET raw == TransformerDaOutput(m, B)
  IN IF Split(m)
     THEN [g \in DOMAIN raw \cup (IF m.backbone_align THEN {"backbone"} ELSE {})
             |-> [group |-> g, batch |-> B, disc |-> TRUE]]
     ELSE raw

\* DeformableDETR.forward on a batch of B images
DETRForward(m, B) ==
  LET L == m.dec_layers
      all == Range(B)
      kept == IF Split(m) THEN Prefix(all, SplitAt(B)) ELSE all
      enckept == IF Split(m) /\ m.two_stage THEN Prefix(all, SplitAt(B)) ELSE all
      outputs_class == [i \in 1..L |-> Pred("class", i - 1, kept)]
      outputs_coord == [i \in 1..L |-> Pred("box", i - 1, kept)]
      base == StageDict(outputs_class[L], outputs_coord[L])
      dbg == IF m.debug
             THEN ("pred_logits_all" :> Pred("class", L - 1, all))
                  @@ ("pred_boxes_all" :> Pred("box", L - 1, all))
             ELSE << >>
      aux == IF m.aux_loss
             THEN ("aux_outputs" :> SetAuxLoss(outputs_class, outputs_coord))
             ELSE << >>
      enc == IF m.two_stage
             THEN ("enc_outputs" :> StageDict(Pred("class", EncLayer, enckept),
                                              Pred("box", EncLayer, enckept)))
             ELSE << >>
      da == IF m.training /\ m.uda THEN ("da_output" :> DaOutput(m, B)) ELSE << >>
      \* out['probs'] = F.softmax(outputs_class[-1])
      probs == IF m.accumulate
               THEN ("probs" :> Pred("softmax", L - 1, kept))
               ELSE << >>
  IN IF m.debug /\ ~Split(m)
     THEN [status |-> "UnboundLocalError", out |-> << >>]
     ELSE [status |-> "ok", out |-> base @@ dbg @@ aux @@ enc @@ da @@ probs]

\* --------------------------------------------------------------- targets
\* the target dictionary of image img: labels and one box per label
Target(img, labels) ==
  [labels |-> labels, boxes |-> [j \in 1..Len(labels) |-> 10 * img + j]]
\* the target lists a caller can pass for a batch of B images
TargetLists(B) ==
  {[i \in 1..B |-> Target(i, f[i])] : f \in [1..B -> LabelChoices]}

\* ----------------------------------------------------------- SetCriterion
\* fields set by SetCriterion.__init__
SetCriterionInit(losses, return_indices) ==
  [losses |-> losses, return_indices |-> return_indices, built |-> TRUE]

LossMap == {"labels", "cardinality", "boxes", "masks"}

\* a loss value: the term, the layer of the predictions it is computed
\* from, the layer whose matching it uses, and for a domain loss the group
\* and whether it is focally reweighted
Val(term, layer, idx, group, focal) ==
  [kind |-> "tensor", term |-> term, layer |-> layer, idx |-> idx,
   group |-> group, focal |-> focal]
\* a plain string stored as a value
StrVal(s) ==
  [kind |-> "str", term |-> s, layer |-> NoLayer, idx |-> NoLayer,
   group |-> "", focal |-> FALSE]

\* the matcher: per target set, target j is assigned to a query slot that
\* depends on the stage's predictions
Matcher(outputs, targets) ==
  LET on == outputs["pred_logits"].layer
  IN [on |-> on,
      pairs |-> [i \in 1..Len(targets) |->
                  [src |-> [j \in 1..Len(targets[i].labels) |-> (j + on) % NumQueries],
                   tgt |-> [j \in 1..Len(targets[i].labels) |-> j - 1]]]]

\* one entry of the call record kept for the properties
Call(op, outputs, targets, idx, nb, log) ==
  [op |-> op, layer |-> outputs["pred_logits"].layer,
   images |-> outputs["pred_logits"].images, targets |-> targets,
   idx |-> idx, nb |-> nb, log |-> log]

\* outputs[...][idx] / target_classes[idx]: a matched pair of an image
\* beyond the batch of the predictions is out of bounds
IdxOutOfBounds(outputs, indices) ==
  \E i \in 1..Len(indices.pairs) :
     /\ Len(indices.pairs[i].src) > 0
     /\ i > Len(outputs["pred_logits"].images)

\* _get_src_permutation_idx: torch.cat of an empty list of tensors raises,
\* which is the case of an empty list of target sets
EmptyCat(indices) == Len(indices.pairs) = 0

\* src_masks[src_idx]: the same bound against the batch of pred_masks
MaskIdxOutOfBounds(outputs, indices) ==
  \E i \in 1..Len(indices.pairs) :
     /\ Len(indices.pairs[i].src) > 0
     /\ i > Len(outputs["pred_masks"].images)

Failed(err) == [status |-> err, tuple |-> FALSE, items |-> << >>]
Dict(items) == [status |-> "ok", tuple |-> FALSE, items |-> items]

LossLabels(outputs, targets, indices, nb, log) ==
  LET layer == outputs["pred_logits"].layer
  IN IF "pred_logits" \notin DOMAIN outputs THEN Failed("AssertionError")
     ELSE IF EmptyCat(indices) THEN Failed("RuntimeError")
     ELSE IF IdxOutOfBounds(outputs, indices) THEN Failed("IndexError")
     ELSE Dict(<< <<"loss_ce", Val("loss_ce", layer, indices.on, "", FALSE)>> >>
               \o (IF log
                   THEN << <<"class_error", Val("class_error", layer, indices.on, "", FALSE)>> >>
                   ELSE << >>))

\* F.l1_loss broadcasts card_pred [bs] against tgt_lengths [n]
LossCardinality(outputs, targets, indices, nb) ==
  LET bs == Len(outputs["pred_logits"].images)
      n == Len(targets)
  IN IF bs # n /\ bs # 1 /\ n # 1 THEN Failed("RuntimeError")
     ELSE Dict(<< <<"cardinality_error",
                    Val("cardinality_error", outputs["pred_logits"].layer, NoLayer, "", FALSE)>> >>)

LossBoxes(outputs, targets, indices, nb) ==
  LET layer == outputs["pred_boxes"].layer
  IN IF "pred_boxes" \notin DOMAIN outputs THEN Failed("AssertionError")
     ELSE IF EmptyCat(indices) THEN Failed("RuntimeError")
     ELSE IF IdxOutOfBounds(outputs, indices) THEN Failed("IndexError")
     ELSE Dict(<< <<"loss_bbox", Val("loss_bbox", layer, indices.on, "", FALSE)>>,
                  <<"loss_giou", Val("loss_giou", layer, indices.on, "", FALSE)>> >>)

\* returns the 1-tuple (losses,)
LossMasks(outputs, targets, indices, nb) ==
  IF "pred_masks" \notin DOMAIN outputs THEN Failed("AssertionError")
  ELSE IF EmptyCat(indices) THEN Failed("RuntimeError")
  ELSE IF MaskIdxOutOfBounds(outputs, indices) THEN Failed("IndexError")
  ELSE [status |-> "ok", tuple |-> TRUE,
        items |-> << <<"loss_mask", Val("loss_mask", outputs["pred_masks"].layer, indices.on, "", FALSE)>>,
                     <<"loss_dice", Val("loss_dice", outputs["pred_masks"].layer, indices.on, "", FALSE)>> >>]

GetLossUnchecked(loss, outputs, targets, indices, nb, log) ==
  CASE loss = "labels" -> LossLabels(outputs, targets, indices, nb, log)
    [] loss = "cardinality" -> LossCardinality(outputs, targets, indices, nb)
    [] loss = "boxes" -> LossBoxes(outputs, targets, indices, nb)
    [] loss = "masks" -> LossMasks(outputs, targets, indices, nb)
    [] OTHER -> Dict(<< >>)

GetLoss(loss, outputs, targets, indices, nb, log) ==
  IF loss \notin LossMap THEN Failed("AssertionError")
  ELSE CASE loss = "labels" -> LossLabels(outputs, targets, indices, nb, log)
         [] loss = "cardinality" -> LossCardinality(outputs, targets, indices, nb)
         [] loss = "boxes" -> LossBoxes(outputs, targets, indices, nb)
         [] loss = "masks" -> LossMasks(outputs, targets, indices, nb)

\* the dictionary {k + suffix: v for k, v in items}
Suffixed(items, suffix) ==
  [k \in {items[i][1] \o suffix : i \in 1..Len(items)} |->
     items[CHOOSE i \in 1..Len(items) : items[i][1] \o suffix = k][2]]

\* losses.update(r): a dict is merged; a tuple is read as a sequence of
\* key/value pairs, so its element (a dict) must have exactly two keys and
\* contributes first key -> second key
Update(losses, r) ==
  IF r.tuple
  THEN ((r.items[1][1] :> StrVal(r.items[2][1])) @@ losses)
  ELSE Suffixed(r.items, "") @@ losses

LogEnabledAlways(main) == TRUE

\* kwargs['log'] = False in the auxiliary and encoder stages; the final
\* stage keeps loss_labels' default log=True
LogEnabled(main) == main

\* `if loss == 'masks': continue` of the auxiliary and encoder stages
SkipLoss(main, loss) == ~main /\ loss = "masks"

AuxSuffixNone(i) == ""

\* the suffix f'_{i}' of auxiliary layer i
AuxSuffix(i) == "_" \o ToString(i)

\* the loop `for loss in self.losses` of one stage, from position k on;
\* main is the final-layer stage (no loss skipped, logging on, no suffix)
RECURSIVE StageLosses(_, _, _, _, _, _, _, _)
StageLosses(st, losses, k, outputs, targets, nb, suffix, main) ==
  IF st.status # "ok" \/ k > Len(losses) THEN st
  ELSE LET loss == losses[k]
           log == LogEnabled(main)
           r == GetLoss(loss, outputs, targets, st.indices, nb, log)
           call == Call(loss, outputs, targets, st.indices.on, nb, log /\ loss = "labels")
           next ==
             IF SkipLoss(main, loss) THEN st
             ELSE IF r.status # "ok"
               THEN [st EXCEPT !.status = r.status, !.calls = Append(@, call)]
             ELSE IF main
               THEN [st EXCEPT !.losses = Update(@, r), !.calls = Append(@, call)]
             ELSE IF r.tuple
               THEN [st EXCEPT !.status = "AttributeError", !.calls = Append(@, call)]
             ELSE [st EXCEPT !.losses = Suffixed(r.items, suffix) @@ @,
                             !.calls = Append(@, call)]
       IN StageLosses(next, losses, k + 1, outputs, targets, nb, suffix, main)

AuxIndicesStale(st, aux_outputs, targets) == st.indices

\* indices = self.matcher(aux_outputs, targets) of the auxiliary loop
AuxIndices(st, aux_outputs, targets) == Matcher(aux_outputs, targets)

\* the loop over outputs['aux_outputs'], from entry i (0-based) on
RECURSIVE AuxStage(_, _, _, _, _, _)
AuxStage(st, losses, aux, i, targets, nb) ==
  IF st.status # "ok" \/ i >= Len(aux) THEN st
  ELSE LET aux_outputs == aux[i + 1]
           indices == AuxIndices(st, aux_outputs, targets)
           st1 == [st EXCEPT !.indices = indices,
                             !.calls = Append(@, Call("matcher", aux_outputs, targets,
                                                      indices.on, 0, FALSE))]
           st2 == StageLosses(st1, losses, 1, aux_outputs, targets, nb,
                              AuxSuffix(i), FALSE)
       IN AuxStage(st2, losses, aux, i + 1, targets, nb)

\* Target dictionaries are objects: heap maps an object to its fields and a
\* target list is a sequence of references into it.
DeepCopyShared(heap, refs) == [heap |-> heap, refs |-> refs]

\* copy.deepcopy(targets): a new list of new objects with equal fields
DeepCopy(heap, refs) ==
  [heap |-> heap \o [k \in 1..Len(refs) |-> heap[refs[k]]],
   refs |-> [k \in 1..Len(refs) |-> Len(heap) + k]]

\* for bt in bin_targets: bt['labels'] = torch.zeros_like(bt['labels'])
ZeroLabels(heap, refs) ==
  [o \in DOMAIN heap |->
     IF \E k \in 1..Len(refs) : refs[k] = o
       THEN [heap[o] EXCEPT !.labels = [j \in 1..Len(heap[o].labels) |-> 0]]
       ELSE heap[o]]

\* the heap and the bin_targets list after lines 632-634
BinTargetsHeap(heap, refs) ==
  LET copied == DeepCopy(heap, refs)
  IN  [heap |-> ZeroLabels(copied.heap, copied.refs), refs |-> copied.refs]

BinTargetsKeep(targets) == targets

\* copy.deepcopy(targets) with every label replaced by zeros_like
BinTargets(targets) ==
  LET bin == BinTargetsHeap(targets, Range(Len(targets)))
  IN  [i \in 1..Len(targets) |-> bin.heap[bin.refs[i]]]

EncStage(st, losses, enc_outputs, targets, nb) ==
  IF st.status # "ok" THEN st
  ELSE LET bin_targets == BinTargets(targets)
           indices == Matcher(enc_outputs, bin_targets)
           st1 == [st EXCEPT !.indices = indices,
                             !.calls = Append(@, Call("matcher", enc_outputs, bin_targets,
                                                      indices.on, 0, FALSE))]
       IN StageLosses(st1, losses, 1, enc_outputs, bin_targets, nb, "_enc", FALSE)

UseFocalAll(k) == TRUE

\* 'query' in k
UseFocal(k) == k \in {"space_query", "channel_query", "instance_query"}

\* the synthetic domain labels of a batch of B: 0 for [:B//2], 1 for [B//2:]
DaLabels(B) == [i \in 1..B |-> IF i <= B \div 2 THEN 0 ELSE 1]

DaBatchAny(B) == TRUE

\* loss_da's assertion
DaBatchOk(B) == B % 2 = 0

LossDa(v, use_focal) ==
  IF ~DaBatchOk(v.batch) THEN [status |-> "AssertionError", value |-> StrVal("")]
  ELSE [status |-> "ok", value |-> Val("loss_da", NoLayer, NoLayer, v.group, use_focal)]

\* the loop over outputs['da_output'].items(), from position k of ks on
RECURSIVE DaStage(_, _, _, _)
DaStage(st, da_output, ks, k) ==
  IF st.status # "ok" \/ k > Len(ks) THEN st
  ELSE LET key == ks[k]
           v == da_output[key]
           r == LossDa(v, UseFocal(key))
           call == [group |-> key, batch |-> v.batch, focal |-> UseFocal(key),
                    labels |-> DaLabels(v.batch)]
           next == IF r.status # "ok"
                   THEN [st EXCEPT !.status = r.status, !.da_calls = Append(@, call)]
                   ELSE [st EXCEPT !.losses = (("loss_" \o key) :> r.value) @@ @,
                                   !.da_calls = Append(@, call)]
       IN DaStage(next, da_output, ks, k + 1)

NoIndices == [on |-> NoLayer, pairs |-> << >>]
NoResult ==
  [status |-> "none", losses |-> << >>, indices |-> NoIndices,
   calls |-> << >>, da_calls |-> << >>, nb |-> 0, caller |-> << >>]

SelectTargetsAll(targets, mode) == targets

\* targets[:len(targets)//2] in mode 'train', the whole list in mode 'test'
SelectTargets(targets, mode) ==
  IF mode = "train" THEN Prefix(targets, Len(targets) \div 2) ELSE targets

\* the process group: the number of workers and the number of target boxes
\* the other workers contribute to the all_reduce; without distributed
\* training get_world_size() is 1 and nothing is reduced
SingleProcess == [world_size |-> 1, others |-> 0]
DistChoices ==
  {SingleProcess} \cup [world_size : 2..MaxWorld, others : 0..MaxOtherBoxes]

NumBoxesNoClamp(targets, dist) == SumLen(targets, Len(targets)) + dist.others

\* num_boxes = clamp(all_reduce(sum(len(t["labels"]))) / world_size, min=1),
\* kept exactly as the numerator of the fraction over world_size:
\* clamp(S / W, min=1) = max(S, W) / W
NumBoxes(targets, dist) ==
  Max(SumLen(targets, Len(targets)) + dist.others, dist.world_size)

\* SetCriterion.forward(outputs, targets, mode)
CriterionForward(c, outputs, targets0, mode, dist) ==
  IF mode \notin {"train", "test"}
  THEN [NoResult EXCEPT !.status = "NotImplementedError", !.caller = targets0]
  ELSE
    LET outputs_without_aux ==
          [k \in DOMAIN outputs \ {"aux_outputs", "enc_outputs"} |-> outputs[k]]
        targets == SelectTargets(targets0, mode)
        indices == Matcher(outputs_without_aux, targets)
        nb == NumBoxes(targets, dist)
        st0 == [status |-> "ok", losses |-> << >>, indices |-> indices,
                calls |-> << Call("matcher", outputs_without_aux, targets,
                                  indices.on, 0, FALSE) >>,
                da_calls |-> << >>, nb |-> nb, caller |-> targets0]
        st1 == StageLosses(st0, c.losses, 1, outputs, targets, nb, "", TRUE)
        st2 == IF "aux_outputs" \in DOMAIN outputs
               THEN AuxStage(st1, c.losses, outputs["aux_outputs"], 0, targets, nb)
               ELSE st1
        \* the caller's list and objects: the slice rebinds the local name to
        \* a new list of the same objects, the encoder stage writes the labels
        \* of the objects of bin_targets
        refs == SelectTargets(Range(Len(targets0)), mode)
        st3 == IF "enc_outputs" \in DOMAIN outputs
               THEN [EncStage(st2, c.losses, outputs["enc_outputs"], targets, nb)
                       EXCEPT !.caller =
                         IF st2.status = "ok"
                           THEN Prefix(BinTargetsHeap(targets0, refs).heap, Len(targets0))
                           ELSE @]
               ELSE st2
        st4 == IF "da_output" \in DOMAIN outputs
               THEN DaStage(st3, outputs["da_output"],
                            Items(outputs["da_output"], GroupOrder), 1)
               ELSE st3
    IN IF st4.status # "ok"
       THEN [st4 EXCEPT !.losses = << >>, !.indices = NoIndices]
       ELSE IF c.return_indices THEN st4
       ELSE [st4 EXCEPT !.indices = NoIndices]

\* ----------------------------------------------------------------- build
\* the losses list build() gives the criterion
BuildLosses(masks) ==
  <<"labels", "boxes", "cardinality">> \o (IF masks THEN <<"masks">> ELSE << >>)

\* the weight_dict of build(): loss key -> name of its coefficient, for the
\* configuration cfg = [AUX_LOSS, MASKS, DEC_LAYERS]
BuildWeightDict(cfg) ==
  LET base == ("loss_ce" :> "CLS_LOSS_COEF") @@ ("loss_bbox" :> "BBOX_LOSS_COEF")
              @@ ("loss_giou" :> "GIOU_LOSS_COEF")
      wd == IF cfg.MASKS
            THEN base @@ ("loss_mask" :> "MASK_LOSS_COEF") @@ ("loss_dice" :> "DICE_LOSS_COEF")
            ELSE base
      sfxs == {AuxSuffix(i) : i \in 0..(cfg.DEC_LAYERS - 2)} \cup {"_enc"}
      aux_weight_dict ==
        [k \in {b \o sfx : b \in DOMAIN wd, sfx \in sfxs} |->
           wd[CHOOSE b \in DOMAIN wd : \E sfx \in sfxs : b \o sfx = k]]
      da == ("loss_backbone" :> "BACKBONE_LOSS_COEF")
            @@ ("loss_space_query" :> "SPACE_QUERY_LOSS_COEF")
            @@ ("loss_channel_query" :> "CHANNEL_QUERY_LOSS_COEF")
            @@ ("loss_instance_query" :> "INSTANCE_QUERY_LOSS_COEF")
  IN da @@ (IF cfg.AUX_LOSS THEN aux_weight_dict @@ wd ELSE wd)

\* ------------------------------------------------------------ PostProcess
\* PostProcess.forward on small tensors.  A logit is an integer number of
\* 1/LogitUnit in LogitMin..(LogitMin + PPLevels - 1) and a probability is
\* its sigmoid in millionths; box coordinates are integers in units of
\* 1/BoxUnit of the image side, with even widths and heights so that the
\* half extents of box_cxcywh_to_xyxy stay integral.
TopK == 100
PPClasses == 3
PPQueries == 34
PPBatch == 2
BoxUnit == 8
LogitUnit == 16
LogitMin == -50
PPLevels == 100
SizeList == << <<2, 3>>, <<5, 4>> >>      \* (height, width)

\* round(10^6 / (1 + exp(-x / LogitUnit))) for x = LogitMin, LogitMin + 1, ...
SigmoidTable ==
  << 42088, 44681, 47426, 50331, 53403, 56652, 60087, 63715, 67547, 71591,
      75858, 80357, 85099, 90093, 95349, 100879, 106691, 112795, 119203, 125923,
      132964, 140336, 148047, 156105, 164516, 173288, 182426, 191933, 201813, 212069,
      222700, 233706, 245085, 256832, 268941, 281406, 294215, 307358, 320821, 334589,
      348645, 362969, 377541, 392337, 407333, 422505, 437823, 453262, 468791, 484380,
      500000, 515620, 531209, 546738, 562177, 577495, 592667, 607663, 622459, 637031,
      651355, 665411, 679179, 692642, 705785, 718594, 731059, 743168, 754915, 766294,
      777300, 787931, 798187, 808067, 817574, 826712, 835484, 843895, 851953, 859664,
      867036, 874077, 880797, 887205, 893309, 899121, 904651, 909907, 914901, 919643,
      924142, 928409, 932453, 936285, 939913, 943348, 946597, 949669, 952574, 955319 >>
Sigmoid(x) == SigmoidTable[x - LogitMin + 1]

\* the inputs: logits out_logits[b][q][c] and boxes out_bbox[b][q]; i is the
\* position q * C + c, and two positions PPLevels apart hold equal logits
PPLogit(stride, seed, b, i) == ((stride * i + seed + b) % PPLevels) + LogitMin
PPBox(b, q) == <<q % 7, q \div 7, 2 + 2 * (q % 2), 2 + 2 * (b % 2)>>
PPOutputs(B, Q, C, stride, seed) ==
  [pred_logits |-> [b \in 1..B |-> [q \in 0..(Q - 1) |->
                      [c \in 0..(C - 1) |-> PPLogit(stride, seed, b, q * C + c)]]],
   pred_boxes  |-> [b \in 1..B |-> [q \in 0..(Q - 1) |-> PPBox(b, q)]]]
\* target_sizes of n images: rows of SizeList in turn, or rows of 3 columns
PPTargetSizes(n, start, cols) ==
  [i \in 1..n |-> IF cols = 2 THEN SizeList[((i + start) % 2) + 1] ELSE <<2, 3, 1>>]

\* prob.view(B, -1): the flattened index of (q, c) is q * C + c
Flat(prob_b, C) ==
  [i \in 0..(Cardinality(DOMAIN prob_b) * C - 1) |-> prob_b[i \div C][i % C]]

\* the orderings of a set
RECURSIVE Perms(_)
Perms(S) ==
  IF S = {} THEN {<< >>}
  ELSE UNION {{<<x>> \o p : p \in Perms(S \ {x})} : x \in S}

\* the indices of flat in non-increasing order of value, equal values in
\* index order
StableOrder(flat) ==
  CHOOSE o \in {[k \in 1..Cardinality(DOMAIN flat) |->
                    CHOOSE i \in DOMAIN flat : rank[i] = k] :
                 rank \in {[i \in DOMAIN flat |->
                    1 + Cardinality({j \in DOMAIN flat :
                          flat[j] > flat[i] \/ (flat[j] = flat[i] /\ j < i)})]}} : TRUE
\* the values that occur more than once
TiedValues(flat) ==
  {flat[i] : i \in {j \in DOMAIN flat : \E l \in DOMAIN flat : l # j /\ flat[l] = flat[j]}}
\* the orders with the indices of value v rearranged in every way
Rearranged(orders, flat, v) ==
  LET group == {i \in DOMAIN flat : flat[i] = v}
      start == Cardinality({j \in DOMAIN flat : flat[j] > v})
  IN  {[k \in DOMAIN o |->
          IF k \in (start + 1)..(start + Cardinality(group)) THEN p[k - start] ELSE o[k]] :
       o \in orders, p \in Perms(group)}
\* every arrangement of the indices of flat in non-increasing order of value:
\* the indices of equal values in any order
RECURSIVE SortedOrders(_, _)
SortedOrders(flat, tied) ==
  IF tied = {} THEN {StableOrder(flat)}
  ELSE LET v == CHOOSE x \in tied : TRUE
       IN  Rearranged(SortedOrders(flat, tied \ {v}), flat, v)

\* torch.topk(flat, k): the indices of the k largest values in non-increasing
\* order of value.  torch does not specify the order among equal values nor
\* which of the equal values at the cut are kept, so this is the set of all
\* index sequences it can return; with fewer than k values it raises, which
\* is the single outcome << >>.
TopKIndexes(values, k) ==
  UNION {IF Cardinality(DOMAIN flat) < k THEN {<< >>}
         ELSE {Prefix(o, k) : o \in SortedOrders(flat, TiedValues(flat))} :
         flat \in {values}}

\* out_logits.sigmoid().view(B, -1) per image
PPFlat(outputs) ==
  LET out_logits == outputs.pred_logits
      Q == Cardinality(DOMAIN out_logits[1])
      C == Cardinality(DOMAIN out_logits[1][0])
  IN  [b \in 1..Len(out_logits) |->
         Flat([q \in 0..(Q - 1) |-> [c \in 0..(C - 1) |-> Sigmoid(out_logits[b][q][c])]], C)]

\* the outcomes of torch.topk over the first n images of the batch: one
\* index sequence per image
RECURSIVE TopKUpTo(_, _)
TopKUpTo(flat, n) ==
  IF n = 0 THEN {<< >>}
  ELSE {Append(f, t) : f \in TopKUpTo(flat, n - 1), t \in TopKIndexes(flat[n], TopK)}
PPTopKOutcomes(outputs) ==
  UNION {TopKUpTo(flat, Len(flat)) : flat \in {PPFlat(outputs)}}

\* box_ops.box_cxcywh_to_xyxy
BoxCxcywhToXyxy(x) ==
  <<x[1] - x[3] \div 2, x[2] - x[4] \div 2, x[1] + x[3] \div 2, x[2] + x[4] \div 2>>

TopkLabel(i, C) == i % C
TopkBox(i, C) == i \div C
ScaleFctHW(size) == <<size[1], size[2], size[1], size[2]>>
ScaleFct(size) == <<size[2], size[1], size[2], size[1]>>
Scaled(box, scale) == [j \in 1..4 |-> box[j] * scale[j]]

\* topk_indexes is the outcome of torch.topk, one of PPTopKOutcomes(outputs)
PostProcessForward(outputs, target_sizes, topk_indexes) ==
  LET out_logits == outputs.pred_logits
      out_bbox   == outputs.pred_boxes
      B == Len(out_logits)
      Q == Cardinality(DOMAIN out_logits[1])
      C == Cardinality(DOMAIN out_logits[1][0])
      \* entries of prob.view(B, -1) and of box_cxcywh_to_xyxy(out_bbox)
      prob(b, i) == Sigmoid(out_logits[b][i \div C][i % C])
      boxes(b, q) == BoxCxcywhToXyxy(out_bbox[b][q])
      result(b) ==
        [scores |-> [k \in 1..TopK |-> prob(b, topk_indexes[b][k])],
         labels |-> [k \in 1..TopK |-> TopkLabel(topk_indexes[b][k], C)],
         boxes  |-> [k \in 1..TopK |->
                       Scaled(boxes(b, TopkBox(topk_indexes[b][k], C)),
                              ScaleFct(target_sizes[b]))]]
  IN  IF B # Len(target_sizes)
        THEN [status |-> "AssertionError", results |-> << >>, topk_indexes |-> << >>]
      ELSE IF \E b \in 1..Len(target_sizes) : Len(target_sizes[b]) # 2
        THEN [status |-> "AssertionError", results |-> << >>, topk_indexes |-> << >>]
      ELSE IF Q * C < TopK
        THEN [status |-> "RuntimeError", results |-> << >>, topk_indexes |-> << >>]
      ELSE [status |-> "ok", results |-> [b \in 1..B |-> result(b)],
            topk_indexes |-> topk_indexes]

\* ------------------------------------------- loss_labels, loss_cardinality
\* The two classification computations on small tensors: LossQueries query
\* slots, class logits of length LossClasses, up to MaxLossBatch images with
\* up to MaxLossTargets targets each.
LossQueries == 3
LossClasses == 3
MaxLossBatch == 2
MaxLossTargets == 2

\* an assignment as the matcher returns it for one image: every target is
\* matched to a query slot of its own, the pairs in slot order
Injective(f) == \A x, y \in DOMAIN f : x # y => f[x] # f[y]
RECURSIVE SlotOrder(_, _)
SlotOrder(f, q) ==
  IF q >= LossQueries THEN << >>
  ELSE (IF \E j \in DOMAIN f : f[j] = q
          THEN <<[src |-> q, tgt |-> (CHOOSE j \in DOMAIN f : f[j] = q) - 1]>>
          ELSE << >>) \o SlotOrder(f, q + 1)
Assignment(f) ==
  LET ordered == SlotOrder(f, 0)
  IN  [src |-> [k \in 1..Len(ordered) |-> ordered[k].src],
       tgt |-> [k \in 1..Len(ordered) |-> ordered[k].tgt]]
\* the (labels, assignment) inputs of one image
LossImages ==
  UNION {{[labels |-> l, pair |-> Assignment(f)] :
            l \in [1..n -> 0..(LossClasses - 1)],
            f \in {g \in [1..n -> 0..(LossQueries - 1)] : Injective(g)}} :
         n \in 0..MaxLossTargets}

\* torch.cat over the src tensors of the first n images, each slot with the
\* number of its image
RECURSIVE CatSrc(_, _)
CatSrc(indices, n) ==
  IF n = 0 THEN << >>
  ELSE CatSrc(indices, n - 1)
         \o [k \in 1..Len(indices[n].src) |-> <<n, indices[n].src[k]>>]
\* _get_src_permutation_idx: the (image, slot) positions of the matched slots;
\* torch.cat raises on an empty list of tensors
SrcPermutationIdx(indices) ==
  IF Len(indices) = 0 THEN [status |-> "RuntimeError", idx |-> << >>]
  ELSE [status |-> "ok", idx |-> CatSrc(indices, Len(indices))]

Min(a, b) == IF a <= b THEN a ELSE b
RECURSIVE CatLabels(_, _, _)
CatLabels(targets, indices, n) ==
  IF n = 0 THEN << >>
  ELSE CatLabels(targets, indices, n - 1)
         \o [k \in 1..Len(indices[n].tgt) |-> targets[n].labels[indices[n].tgt[k] + 1]]
\* torch.cat([t["labels"][J] for t, (_, J) in zip(targets, indices)]): zip
\* stops at the shorter list, labels[J] raises on a target index out of range
TargetClassesO(targets, indices) ==
  LET n == Min(Len(targets), Len(indices))
  IN  IF \E i \in 1..n : \E k \in 1..Len(indices[i].tgt) :
            indices[i].tgt[k] + 1 \notin 1..Len(targets[i].labels)
        THEN [status |-> "IndexError", values |-> << >>]
      ELSE IF n = 0 THEN [status |-> "RuntimeError", values |-> << >>]
      ELSE [status |-> "ok", values |-> CatLabels(targets, indices, n)]

FillClassZero(num_classes) == 0
FillClass(num_classes) == num_classes

\* the one-hot target loss_labels hands to sigmoid_focal_loss, for logits of
\* shape (B, Q, C)
TargetClassesOnehot(B, Q, C, num_classes, targets, indices) ==
  LET src == SrcPermutationIdx(indices)
      idx == src.idx
      cat == TargetClassesO(targets, indices)
      target_classes_o == cat.values
      \* target_classes[idx] = target_classes_o, a single value being broadcast
      assigned(k) == IF Len(target_classes_o) = 1 THEN target_classes_o[1]
                     ELSE target_classes_o[k]
      target_classes ==
        [b \in 1..B |-> [q \in 0..(Q - 1) |->
           IF \E k \in 1..Len(idx) : idx[k] = <<b, q>>
             THEN assigned(CHOOSE k \in 1..Len(idx) : idx[k] = <<b, q>>)
             ELSE FillClass(num_classes)]]
      scattered ==
        [b \in 1..B |-> [q \in 0..(Q - 1) |-> [c \in 0..C |->
           IF target_classes[b][q] = c THEN 1 ELSE 0]]]
  IN  IF src.status # "ok" THEN [status |-> src.status, onehot |-> << >>]
      ELSE IF cat.status # "ok" THEN [status |-> cat.status, onehot |-> << >>]
      ELSE IF \E k \in 1..Len(idx) : idx[k][1] > B \/ idx[k][2] \notin 0..(Q - 1)
        THEN [status |-> "IndexError", onehot |-> << >>]
      ELSE IF Len(target_classes_o) # Len(idx) /\ Len(target_classes_o) # 1
        THEN [status |-> "RuntimeError", onehot |-> << >>]
      ELSE IF \E b \in 1..B, q \in 0..(Q - 1) : target_classes[b][q] \notin 0..C
        THEN [status |-> "RuntimeError", onehot |-> << >>]
      ELSE [status |-> "ok",
            onehot |-> [b \in 1..B |-> [q \in 0..(Q - 1) |->
                          [c \in 0..(C - 1) |-> scattered[b][q][c]]]]]

\* pred_logits.argmax(-1): the first index holding the maximal value
Argmax(row) ==
  CHOOSE c \in DOMAIN row :
    /\ \A d \in DOMAIN row : row[d] <= row[c]
    /\ \A d \in DOMAIN row : d < c => row[d] < row[c]
LogitRows ==
  {[c \in 0..(LossClasses - 1) |-> r[c + 1]] : r \in {<<2, 0, 1>>, <<0, 1, 1>>, <<0, 1, 2>>}}
RECURSIVE SumAbsDiff(_, _, _)
SumAbsDiff(a, b, n) ==
  IF n = 0 THEN 0
  ELSE SumAbsDiff(a, b, n - 1) + (IF a[n] >= b[n] THEN a[n] - b[n] ELSE b[n] - a[n])

CardPred(row) == IF Argmax(row) # Cardinality(DOMAIN row) - 1 THEN 1 ELSE 0
RECURSIVE CountSlots(_, _)
CountSlots(rows, q) ==
  IF q < 0 THEN 0 ELSE CountSlots(rows, q - 1) + CardPred(rows[q])

\* loss_cardinality: F.l1_loss is the mean of |card_pred - tgt_lengths|,
\* kept as the sum (num) over the number of elements (den; 0 / 0 is nan).
\* card_pred [B] and tgt_lengths [n] are broadcast when one of them has a
\* single element and cannot be combined otherwise.
LossCardinalityValue(pred_logits, targets) ==
  LET B == Len(pred_logits)
      n == Len(targets)
      tgt_lengths == [b \in 1..n |-> Len(targets[b].labels)]
      card_pred == [b \in 1..B |->
                      CountSlots(pred_logits[b], Cardinality(DOMAIN pred_logits[b]) - 1)]
      m == IF B = 1 THEN n ELSE B
      left == [e \in 1..m |-> IF B = 1 THEN card_pred[1] ELSE card_pred[e]]
      right == [e \in 1..m |-> IF n = 1 THEN tgt_lengths[1] ELSE tgt_lengths[e]]
  IN  IF B # n /\ B # 1 /\ n # 1
        THEN [status |-> "RuntimeError", card_pred |-> card_pred,
              cardinality_error |-> [num |-> 0, den |-> 0]]
      ELSE [status |-> "ok", card_pred |-> card_pred,
            cardinality_error |-> [num |-> SumAbsDiff(left, right, m), den |-> m]]

\* ------------------------------------------------------------ the program
VARIABLES
  model,      \* the DeformableDETR instance
  criterion,  \* the SetCriterion instance
  batch,      \* size of the batch last given to the model
  targets,    \* the caller's target list
  fwd,        \* status and output of the last DeformableDETR.forward call
  outputs,    \* the outputs dictionary given to SetCriterion.forward
  mode,       \* the mode argument of the last SetCriterion.forward call
  res,        \* status and result of the last SetCriterion.forward call
  world,      \* the process group the criterion runs in
  pp,         \* inputs and result of the last PostProcess.forward call
  lc,         \* inputs and result of the last single loss computation
  pc
vars == <<model, criterion, batch, targets, fwd, outputs, mode, res, world, pp, lc, pc>>

NoPostProcess == [status |-> "none"]
NoLossCall == [op |-> "none"]
NoCriterion == [losses |-> << >>, return_indices |-> FALSE, built |-> FALSE]

Init ==
  /\ \E training, aux_loss, two_stage, ba, sa, ca, ia, debug, accumulate \in BOOLEAN :
     \E da_mode \in DaModes, L \in 1..MaxDecLayers :
        model = DeformableDETRInit(training, da_mode, aux_loss, two_stage,
                                   ba, sa, ca, ia, debug, accumulate, L)
  /\ criterion = NoCriterion
  /\ batch = 0
  /\ targets = << >>
  /\ fwd = [status |-> "none", out |-> << >>]
  /\ outputs = << >>
  /\ mode = "none"
  /\ res = NoResult
  /\ world = SingleProcess
  /\ pp = NoPostProcess
  /\ lc = NoLossCall
  /\ pc = "model"

\* criterion = SetCriterion(num_classes, matcher, weight_dict, losses, ...)
BuildCriterion ==
  /\ pc = "model"
  /\ \E losses \in LossLists, return_indices \in BOOLEAN :
        criterion' = SetCriterionInit(losses, return_indices)
  /\ pc' = "built"
  /\ UNCHANGED <<model, batch, targets, fwd, outputs, mode, res, world, pp, lc>>

\* out = model(samples, targets, ...) on a batch of B images and B targets
ModelForward ==
  /\ pc = "built"
  /\ \E B \in 1..MaxBatch : \E tl \in TargetLists(B) :
        /\ batch' = B
        /\ targets' = tl
        /\ fwd' = DETRForward(model, B)
  /\ pc' = IF fwd'.status = "ok" THEN "forwarded" ELSE "failed"
  /\ UNCHANGED <<model, criterion, outputs, mode, res, world, pp, lc>>

\* the segmentation wrapper adds pred_masks for the images of the output
WithMasks(out) ==
  ("pred_masks" :> Pred("mask", out["pred_logits"].layer, out["pred_logits"].images)) @@ out

\* loss_dict = criterion(outputs, targets, mode), when it runs without
\* waiting for another process: outside a process group, or when the mode is
\* rejected before the reduction
CriterionCall ==
  /\ pc = "forwarded"
  /\ \E md \in Modes, masks \in BOOLEAN :
        /\ md \notin {"train", "test"} \/ world.world_size = 1
        /\ mode' = md
        /\ outputs' = IF masks THEN WithMasks(fwd.out) ELSE fwd.out
        /\ res' = CriterionForward(criterion, outputs', targets, md, world)
  /\ targets' = res'.caller
  /\ pc' = "done"
  /\ UNCHANGED <<model, criterion, batch, fwd, world, pp, lc>>

Next == BuildCriterion \/ ModelForward \/ CriterionCall

Spec == Init /\ [][Next]_vars

\* distributed training: the same program run in a process group, for the
\* detector with the backbone and space alignment flags
InitDist ==
  /\ \E training, aux_loss, two_stage, ba, sa, accumulate \in BOOLEAN :
     \E da_mode \in DaModes, L \in 1..MaxDecLayers :
        model = DeformableDETRInit(training, da_mode, aux_loss, two_stage,
                                   ba, sa, FALSE, FALSE, FALSE, accumulate, L)
  /\ criterion = NoCriterion
  /\ batch = 0
  /\ targets = << >>
  /\ fwd = [status |-> "none", out |-> << >>]
  /\ outputs = << >>
  /\ mode = "none"
  /\ res = NoResult
  /\ world \in DistChoices
  /\ pp = NoPostProcess
  /\ lc = NoLossCall
  /\ pc = "model"

\* lines 585-602 in a process group: the targets are selected, the matcher
\* has run on the final layer and the local number of boxes is summed; the
\* process then waits in torch.distributed.all_reduce for the others
BeforeAllReduce(outs, targets0, md) ==
  LET outputs_without_aux ==
        [k \in DOMAIN outs \ {"aux_outputs", "enc_outputs"} |-> outs[k]]
      selected == SelectTargets(targets0, md)
      indices == Matcher(outputs_without_aux, selected)
  IN  [NoResult EXCEPT !.status = "all_reduce",
                       !.indices = indices,
                       !.calls = << Call("matcher", outputs_without_aux, selected,
                                         indices.on, 0, FALSE) >>,
                       !.nb = SumLen(selected, Len(selected)),
                       !.caller = targets0]

CriterionMatch ==
  /\ pc = "forwarded"
  /\ world.world_size > 1
  /\ \E md \in {"train", "test"}, masks \in BOOLEAN :
        /\ mode' = md
        /\ outputs' = IF masks THEN WithMasks(fwd.out) ELSE fwd.out
        /\ res' = BeforeAllReduce(outputs', targets, md)
  /\ targets' = res'.caller
  /\ pc' = "all_reduce"
  /\ UNCHANGED <<model, criterion, batch, fwd, world, pp, lc>>

\* the reduction returns with the boxes of the other processes added, and
\* the call runs to its end
AllReduce ==
  /\ pc = "all_reduce"
  /\ res' = CriterionForward(criterion, outputs, targets, mode, world)
  /\ targets' = res'.caller
  /\ pc' = "done"
  /\ UNCHANGED <<model, criterion, batch, fwd, outputs, mode, world, pp, lc>>

NextDist == Next \/ CriterionMatch \/ AllReduce

SpecDist == InitDist /\ [][NextDist]_vars

\* The post-processor on its own: the state starts with the inputs of one
\* PostProcess.forward call drawn, and the call is the only step.
Idle ==
  /\ model = DeformableDETRInit(FALSE, "source_only", FALSE, FALSE, FALSE,
                                FALSE, FALSE, FALSE, FALSE, FALSE, 1)
  /\ criterion = NoCriterion
  /\ batch = 0
  /\ targets = << >>
  /\ fwd = [status |-> "none", out |-> << >>]
  /\ outputs = << >>
  /\ mode = "none"
  /\ res = NoResult
  /\ world = SingleProcess

InitPP ==
  /\ Idle
  /\ lc = NoLossCall
  /\ \E B \in 1..PPBatch, Q \in {PPQueries - 1, PPQueries}, stride \in {1, 3},
        seed \in 0..1, n \in 1..(PPBatch + 1) :
       \E shape \in {<<0, 2>>, <<1, 2>>, <<0, 3>>} :
         /\ n \in {B, B + 1}
         /\ pp = [status |-> "input",
                  outputs |-> PPOutputs(B, Q, PPClasses, stride, seed),
                  target_sizes |-> PPTargetSizes(n, shape[1], shape[2])]
  /\ pc = "pp"

PostProcessCall ==
  /\ pc = "pp"
  /\ \E topk_indexes \in PPTopKOutcomes(pp.outputs) :
       pp' = [outputs |-> pp.outputs, target_sizes |-> pp.target_sizes]
               @@ PostProcessForward(pp.outputs, pp.target_sizes, topk_indexes)
  /\ pc' = "pp_done"
  /\ UNCHANGED <<model, criterion, batch, targets, fwd, outputs, mode, res, world, lc>>

SpecPP == InitPP /\ [][PostProcessCall]_vars

\* The two classification computations on their own: the state starts with
\* the inputs of one call drawn, and the call is the only step.
InitLossLabels ==
  /\ Idle
  /\ pp = NoPostProcess
  /\ \E B \in 0..MaxLossBatch :
       \E imgs \in [1..B -> LossImages],
          num_classes \in (LossClasses - 1)..(LossClasses + 1),
          bs \in {Max(B - 1, 1), Max(B, 1)} :
         /\ bs # B => num_classes = LossClasses
         /\ lc = [op |-> "labels", status |-> "input", num_classes |-> num_classes,
                  batch |-> bs,
                  targets |-> [b \in 1..B |-> Target(b, imgs[b].labels)],
                  indices |-> [b \in 1..B |-> imgs[b].pair]]
  /\ pc = "labels"

InitLossCardinality ==
  /\ Idle
  /\ pp = NoPostProcess
  /\ \E B \in 1..MaxLossBatch :
       \E logits \in [1..B -> [0..(LossQueries - 1) -> LogitRows]],
          n \in [1..B -> 0..MaxLossTargets] :
         lc = [op |-> "cardinality", status |-> "input", pred_logits |-> logits,
               targets |-> [b \in 1..B |-> Target(b, [j \in 1..n[b] |-> 0])]]
  /\ pc = "cardinality"

InitLoss == InitLossLabels \/ InitLossCardinality

LossLabelsCall ==
  /\ pc = "labels"
  /\ lc' = TargetClassesOnehot(lc.batch, LossQueries, LossClasses,
                               lc.num_classes, lc.targets, lc.indices)
             @@ lc
  /\ pc' = "labels_done"
  /\ UNCHANGED <<model, criterion, batch, targets, fwd, outputs, mode, res, world, pp>>

LossCardinalityCall ==
  /\ pc = "cardinality"
  /\ lc' = LossCardinalityValue(lc.pred_logits, lc.targets) @@ lc
  /\ pc' = "cardinality_done"
  /\ UNCHANGED <<model, criterion, batch, targets, fwd, outputs, mode, res, world, pp>>

SpecLoss == InitLoss /\ [][LossLabelsCall \/ LossCardinalityCall]_vars

\* ------------------------------------------------------------ properties
Returned == pc = "done" /\ res.status = "ok"
Keys == DOMAIN res.losses
Sfx(k, sfx) == k \o "_" \o sfx
AllGroups == {"backbone", "space_query", "channel_query", "instance_query"}
EnabledGroups == {g \in AllGroups : AlignFlag(model, g)}
StdLosses == <<"labels", "boxes", "cardinality">>
Det4 == {"loss_ce", "cardinality_error", "loss_bbox", "loss_giou"}
HasAux == "aux_outputs" \in DOMAIN outputs
HasEnc == "enc_outputs" \in DOMAIN outputs
NumAux == IF HasAux THEN Len(outputs["aux_outputs"]) ELSE 0
AuxKeys(base) == {Sfx(k, ToString(i)) : k \in base, i \in 0..(NumAux - 1)}
EncKeys(base) == IF HasEnc THEN {Sfx(k, "enc") : k \in base} ELSE {}
\* the first floor(n/2) entries of the caller's list, in order
FirstHalf(s) ==
  CHOOSE h \in {SubSeq(s, 1, k) : k \in 0..Len(s)} :
     2 * Len(h) <= Len(s) /\ Len(s) < 2 * Len(h) + 2
Selected == IF mode = "train" THEN FirstHalf(targets) ELSE targets
CallsOf(ops, layers) ==
  {i \in 1..Len(res.calls) : res.calls[i].op \in ops /\ res.calls[i].layer \in layers}
DetOps == {"matcher", "labels", "boxes", "cardinality", "masks"}
FinalLayer == model.dec_layers - 1
DecLayers == 0..FinalLayer

\* the scenario of the end-to-end test of C1
C1_Scenario ==
  /\ pc = "done" /\ mode = "train" /\ batch = 2
  /\ targets = <<Target(1, <<2, 1>>), Target(2, << >>)>>
  /\ model.training /\ model.da_mode = "uda"
  /\ Cardinality(EnabledGroups) = 1
  /\ criterion.losses = StdLosses

\* C1 as stated: in the end-to-end scenario the returned key set is exactly
\* the four detection keys, the enabled domain key and the _i copies of the
\* four detection keys; no other key is present.
C1_Original ==
  C1_Scenario =>
    /\ res.status = "ok"
    /\ Keys = Det4 \cup {"loss_" \o g : g \in EnabledGroups} \cup AuxKeys(Det4)

\* C1 amended: in the end-to-end scenario the call returns and the key set
\* is exactly the four detection keys, the unsuffixed class_error of the
\* final stage, the enabled domain key, the _i copies of the four detection
\* keys per auxiliary layer and, with enc_outputs, their _enc copies.
C1_KeySet ==
  C1_Scenario =>
    /\ res.status = "ok"
    /\ Keys = Det4 \cup {"class_error"} \cup {"loss_" \o g : g \in EnabledGroups}
              \cup AuxKeys(Det4) \cup EncKeys(Det4)

C1_Witness ==
  C1_Scenario /\ Returned /\ NumAux = 1 /\ HasEnc /\ model.space_align
  /\ model.accumulate /\ "probs" \in DOMAIN outputs
  /\ "class_error" \in Keys /\ "loss_ce_0" \in Keys /\ "loss_giou_enc" \in Keys

\* C2: in mode 'train' every matcher call, num_boxes and every detection
\* loss of the main, auxiliary and encoder stages use exactly the first
\* floor(n/2) targets in order (the encoder stage their binarized copies);
\* in mode 'test' the full list; any other mode raises NotImplementedError
\* before the matcher is invoked.
C2_ModePolicy ==
  pc = "done" =>
    /\ mode \in {"train", "test"} =>
         /\ \A i \in CallsOf(DetOps, DecLayers) : res.calls[i].targets = Selected
         /\ \A i \in CallsOf(DetOps, {EncLayer}) :
               /\ Len(res.calls[i].targets) = Len(Selected)
               /\ \A j \in 1..Len(Selected) :
                     res.calls[i].targets[j].boxes = Selected[j].boxes
         /\ res.nb = Max(SumLen(Selected, Len(Selected)), 1)
         /\ \A i \in CallsOf(DetOps \ {"matcher"}, DecLayers \cup {EncLayer}) :
               res.calls[i].nb = res.nb
         /\ Len(res.calls) >= 1 /\ res.calls[1].op = "matcher"
    /\ mode \notin {"train", "test"} =>
         /\ res.status = "NotImplementedError"
         /\ res.calls = << >>

C2_Witness ==
  /\ Returned /\ mode = "train" /\ Split(model) /\ batch = 4
  /\ Len(targets[1].labels) = 0 /\ Len(targets[2].labels) = 2
  /\ Len(targets[3].labels) = 2 /\ Len(targets[4].labels) = 2
  /\ CallsOf({"matcher"}, {0}) # {} /\ CallsOf({"boxes"}, {EncLayer}) # {}
  /\ CallsOf({"labels"}, {FinalLayer}) # {} /\ FinalLayer = 1
  /\ \A i \in CallsOf({"labels"}, {FinalLayer}) :
        res.calls[i].targets = <<targets[1], targets[2]>>
  /\ res.nb = 2

\* the keys one requested loss contributes in an auxiliary or encoder stage
StageKeysOf(loss) ==
  CASE loss = "labels" -> {"loss_ce"}
    [] loss = "cardinality" -> {"cardinality_error"}
    [] loss = "boxes" -> {"loss_bbox", "loss_giou"}
    [] OTHER -> {}
Requested == {criterion.losses[i] : i \in 1..Len(criterion.losses)}
RequestedStageKeys == UNION {StageKeysOf(l) : l \in Requested}
\* a value computed from the predictions of layer l with layer l's matching
ValueOf(v, term, l) ==
  /\ v.kind = "tensor" /\ v.term = term /\ v.layer = l
  /\ v.idx = (IF term = "cardinality_error" THEN NoLayer ELSE l)

\* C3: with aux_outputs of L-1 entries the matcher is invoked once per
\* auxiliary layer on that layer's predictions, every requested non-mask
\* loss of layer i is emitted under '<name>_i' with that layer's value, and
\* the unsuffixed keys hold the final-layer values.
C3_AuxAggregation ==
  (Returned /\ HasAux) =>
    /\ NumAux = model.dec_layers - 1
    /\ \A i \in 0..(NumAux - 1) :
         /\ Cardinality(CallsOf({"matcher"}, {i})) = 1
         /\ \A c \in CallsOf({"matcher"}, {i}) :
               res.calls[c].images = outputs["aux_outputs"][i + 1]["pred_logits"].images
         /\ \A k \in RequestedStageKeys :
               /\ Sfx(k, ToString(i)) \in Keys
               /\ ValueOf(res.losses[Sfx(k, ToString(i))], k, i)
    /\ \A k \in RequestedStageKeys :
         k \in Keys /\ ValueOf(res.losses[k], k, FinalLayer)

C3_Witness ==
  /\ Returned /\ NumAux = 2 /\ model.dec_layers = 3
  /\ criterion.losses = StdLosses /\ Len(Selected) = 2 /\ Len(Selected[1].labels) = 2
  /\ model.accumulate
  /\ res.losses["loss_bbox_0"].layer = 0 /\ res.losses["loss_bbox_1"].idx = 1
  /\ res.losses["loss_bbox"].layer = 2

SuffixSet == {ToString(i) : i \in 0..MaxDecLayers} \cup {"enc"}

\* C4: the returned mapping never holds a suffixed class_error key nor a
\* suffixed mask key; class_error appears only unsuffixed, with the value
\* of the final stage.
C4_StageExclusions ==
  Returned =>
    /\ \A k \in {"class_error", "loss_mask", "loss_dice"} :
          \A sfx \in SuffixSet : Sfx(k, sfx) \notin Keys
    /\ "class_error" \in Keys => ValueOf(res.losses["class_error"], "class_error", FinalLayer)

C4_Witness ==
  /\ Returned /\ NumAux >= 1 /\ HasEnc /\ "pred_masks" \in DOMAIN outputs
  /\ "probs" \in DOMAIN outputs
  /\ "masks" \in Requested /\ "labels" \in Requested
  /\ "class_error" \in Keys /\ "loss_ce_0" \in Keys /\ "loss_ce_enc" \in Keys

\* C5: the matcher and every loss of the encoder stage receive the
\* mode-selected targets with the same images, boxes and number of labels
\* and every label replaced by 0; the results are emitted under '<name>_enc'
\* keys, and the main and auxiliary stages use the real labels.
C5_EncoderBinarized ==
  (pc = "done" /\ HasEnc /\ mode \in {"train", "test"}) =>
    /\ \A i \in CallsOf(DetOps, {EncLayer}) :
          LET t == res.calls[i].targets
          IN /\ Len(t) = Len(Selected)
             /\ \A j \in 1..Len(t) :
                   /\ t[j].boxes = Selected[j].boxes
                   /\ Len(t[j].labels) = Len(Selected[j].labels)
                   /\ \A x \in 1..Len(t[j].labels) : t[j].labels[x] = 0
    /\ \A i \in CallsOf(DetOps, DecLayers) :
          \A j \in 1..Len(Selected) :
             res.calls[i].targets[j].labels = Selected[j].labels
    /\ Returned =>
         /\ Cardinality(CallsOf({"matcher"}, {EncLayer})) = 1
         /\ \A k \in RequestedStageKeys :
               /\ Sfx(k, "enc") \in Keys
               /\ ValueOf(res.losses[Sfx(k, "enc")], k, EncLayer)

C5_Witness ==
  /\ Returned /\ HasEnc /\ HasAux /\ criterion.losses = StdLosses
  /\ Len(Selected) = 2 /\ Selected[1].labels = <<2, 1>> /\ Selected[2].labels = <<2, 1>>
  /\ model.accumulate
  /\ \E i \in CallsOf({"labels"}, {EncLayer}) :
        res.calls[i].targets[1].labels = <<0, 0>> /\ res.calls[i].targets[2].labels = <<0, 0>>
  /\ \E i \in CallsOf({"labels"}, {0}) : res.calls[i].targets[1].labels = <<2, 1>>

DaCallsOf(g) == {i \in 1..Len(res.da_calls) : res.da_calls[i].group = g}

\* C6: with the model training in da_mode 'uda' the returned mapping holds
\* loss_<g> iff alignment flag g is enabled, each computed exactly once per
\* call and never under a '_<i>' or '_enc' suffix.
C6_DomainKeys ==
  (Returned /\ model.training /\ model.da_mode = "uda") =>
    \A g \in AllGroups :
      /\ ("loss_" \o g) \in Keys <=> AlignFlag(model, g)
      /\ Cardinality(DaCallsOf(g)) = (IF AlignFlag(model, g) THEN 1 ELSE 0)
      /\ AlignFlag(model, g) =>
            /\ res.losses["loss_" \o g].term = "loss_da"
            /\ res.losses["loss_" \o g].group = g
      /\ \A sfx \in SuffixSet : Sfx("loss_" \o g, sfx) \notin Keys

C6_Witness ==
  /\ Returned /\ model.training /\ model.da_mode = "uda"
  /\ batch = 4 /\ "probs" \in DOMAIN outputs
  /\ model.backbone_align /\ model.instance_align
  /\ ~model.space_align /\ ~model.channel_align
  /\ NumAux = 1 /\ HasEnc
  /\ "loss_backbone" \in Keys /\ "loss_instance_query" \in Keys

OddDaEntry ==
  /\ "da_output" \in DOMAIN outputs
  /\ \E g \in DOMAIN outputs["da_output"] : outputs["da_output"][g].batch % 2 = 1

\* C7: when a da_output entry has an odd batch dimension loss_da fails and
\* forward returns no loss mapping; for an even batch B the synthetic label
\* is 0 for items 0..B/2-1 and 1 for items B/2..B-1.
C7_OddBatchRejected ==
  pc = "done" =>
    /\ OddDaEntry =>
         /\ res.status # "ok" /\ res.losses = << >>
         /\ res.da_calls # << >> => res.status = "AssertionError"
    /\ \A i \in 1..Len(res.da_calls) :
         LET c == res.da_calls[i]
         IN c.batch % 2 = 0 =>
              /\ Len(c.labels) = c.batch
              /\ \A x \in 1..c.batch :
                    c.labels[x] = (IF 2 * x <= c.batch THEN 0 ELSE 1)

C7_Witness ==
  /\ pc = "done" /\ OddDaEntry /\ batch = 3 /\ mode = "train"
  /\ res.status = "AssertionError" /\ Len(res.da_calls) = 1
  /\ CallsOf({"labels"}, {FinalLayer}) # {}

C7_WitnessEven ==
  /\ Returned /\ batch = 4 /\ Len(res.da_calls) = 2
  /\ res.da_calls[1].labels = <<0, 0, 1, 1>>
  /\ res.da_calls[2].labels = <<0, 0, 1, 1>>

Forwarded == pc \in {"forwarded", "failed", "all_reduce", "done"}

\* C8 as stated: whenever forward performs the adversarial split the batch
\* is even; an odd batch is rejected by DeformableDETR.forward as an error.
C8_Original ==
  (Forwarded /\ Split(model) /\ batch % 2 = 1) => fwd.status # "ok"

\* C8 amended: DeformableDETR.forward does not check the batch size: with
\* the adversarial split an odd batch of B is split at floor(B/2) without
\* error; the odd batch is rejected only by SetCriterion.forward, which
\* never returns a mapping for that output (loss_da's assertion fails,
\* when no earlier loss computation has raised).
C8_SilentSplit ==
  (Forwarded /\ Split(model) /\ batch % 2 = 1) =>
    /\ fwd.status = "ok"
    /\ Len(fwd.out["pred_logits"].images) * 2 = batch - 1
    /\ "da_output" \in DOMAIN fwd.out /\ DOMAIN fwd.out["da_output"] # {}
    /\ pc = "done" =>
         /\ res.status # "ok"
         /\ res.da_calls # << >> => res.status = "AssertionError"

C8_Witness ==
  /\ pc = "done" /\ Split(model) /\ batch = 3 /\ fwd.status = "ok"
  /\ "probs" \in DOMAIN fwd.out /\ fwd.out["probs"].images = <<1>>
  /\ fwd.out["pred_logits"].images = <<1>>
  /\ res.status = "AssertionError" /\ res.da_calls # << >>

Unsupported == \E i \in 1..Len(criterion.losses) : criterion.losses[i] \notin LossMap

\* C9 as stated: no SetCriterion instance holding an unsupported loss name
\* ever exists (construction fails).
C9_Original ==
  criterion.built => ~Unsupported

\* C9 amended: SetCriterion's construction accepts any losses list; an
\* unsupported name is rejected by get_loss's assertion during forward,
\* after the main-stage matcher was invoked and the losses listed before
\* it were computed, and forward then returns no loss mapping.
C9_RejectedInForward ==
  (pc = "done" /\ Unsupported) =>
    /\ criterion.built
    /\ res.status # "ok" /\ res.losses = << >>
    /\ mode \in {"train", "test"} =>
         /\ res.calls[1].op = "matcher"
         /\ res.calls[Len(res.calls)].op \notin LossMap => res.status = "AssertionError"
         /\ \A i \in 1..Len(res.calls) : res.calls[i].layer = FinalLayer

C9_Witness ==
  /\ pc = "done" /\ Unsupported /\ res.status = "AssertionError"
  /\ "probs" \in DOMAIN outputs
  /\ Len(res.calls) = 3 /\ res.calls[1].op = "matcher"
  /\ res.calls[2].op = "labels" /\ res.calls[3].op = "foo"

\* the images 1..n in order
ImagesUpTo(s, n) == Len(s) = n /\ \A i \in 1..n : s[i] = i
StageCovers(d, n) ==
  ImagesUpTo(d["pred_logits"].images, n) /\ ImagesUpTo(d["pred_boxes"].images, n)

\* C10: when training with an alignment flag and da_mode 'uda', the
\* final-layer predictions, every auxiliary layer's predictions and the
\* encoder proposals of the output hold exactly the first floor(B/2) images
\* in order; in every other case they hold all B images.
C10_BatchSplit ==
  (Forwarded /\ fwd.status = "ok") =>
    LET adv == model.training /\ model.da_mode = "uda" /\ EnabledGroups # {}
        n == IF adv THEN (CHOOSE h \in 0..batch : 2 * h <= batch /\ batch < 2 * h + 2)
             ELSE batch
    IN /\ StageCovers(fwd.out, n)
       /\ "aux_outputs" \in DOMAIN fwd.out =>
             \A i \in 1..Len(fwd.out["aux_outputs"]) : StageCovers(fwd.out["aux_outputs"][i], n)
       /\ "enc_outputs" \in DOMAIN fwd.out => StageCovers(fwd.out["enc_outputs"], n)

C10_Witness ==
  /\ pc = "forwarded" /\ Split(model) /\ batch = 4 /\ model.dec_layers = 3
  /\ "aux_outputs" \in DOMAIN fwd.out /\ "enc_outputs" \in DOMAIN fwd.out
  /\ fwd.out["pred_logits"].images = <<1, 2>>
  /\ fwd.out["enc_outputs"]["pred_boxes"].images = <<1, 2>>
  /\ fwd.out["aux_outputs"][1]["pred_logits"].images = <<1, 2>>
  /\ fwd.out["aux_outputs"][2]["pred_boxes"].images = <<1, 2>>

C10_WitnessNoSplit ==
  /\ pc = "forwarded" /\ ~Split(model) /\ model.training /\ model.uda /\ batch = 4
  /\ "enc_outputs" \in DOMAIN fwd.out
  /\ fwd.out["enc_outputs"]["pred_boxes"].images = <<1, 2, 3, 4>>

\* an odd batch: the half is rounded down
C10_WitnessOdd ==
  /\ pc = "forwarded" /\ Split(model) /\ batch = 3 /\ model.two_stage
  /\ fwd.out["pred_boxes"].images = <<1>>
  /\ fwd.out["enc_outputs"]["pred_logits"].images = <<1>>

\* the criterion was given at least one target set after the mode selection
SomeTargets == mode \in {"train", "test"} /\ Selected # << >>

\* C11 as stated: with da_mode 'source_only' forward performs no batch
\* split and the loss mapping returned for its output holds no domain-loss
\* key, for every combination of alignment flags and of training/eval.
C11_Original ==
  (Forwarded /\ fwd.status = "ok" /\ model.da_mode = "source_only") =>
    /\ StageCovers(fwd.out, batch)
    /\ (Returned /\ SomeTargets) => \A g \in AllGroups : ("loss_" \o g) \notin Keys

\* C12: the dictionary returned by DeformableDETR.forward has the
\* predictions of layer L-1 as pred_logits/pred_boxes, 'aux_outputs' iff
\* aux_loss (exactly the L-1 dicts of layers 0..L-2 in order), 'enc_outputs'
\* iff two_stage, and 'da_output' iff training with an alignment flag.
C12_OutputAssembly ==
  (Forwarded /\ fwd.status = "ok") =>
    LET out == fwd.out
    IN /\ out["pred_logits"].layer = FinalLayer /\ out["pred_logits"].head = "class"
       /\ out["pred_boxes"].layer = FinalLayer /\ out["pred_boxes"].head = "box"
       /\ ("aux_outputs" \in DOMAIN out) <=> model.aux_loss
       /\ "aux_outputs" \in DOMAIN out =>
            /\ Len(out["aux_outputs"]) = model.dec_layers - 1
            /\ \A i \in 1..Len(out["aux_outputs"]) :
                  /\ out["aux_outputs"][i]["pred_logits"].layer = i - 1
                  /\ out["aux_outputs"][i]["pred_logits"].head = "class"
                  /\ out["aux_outputs"][i]["pred_boxes"].layer = i - 1
                  /\ out["aux_outputs"][i]["pred_boxes"].head = "box"
       /\ ("enc_outputs" \in DOMAIN out) <=> model.two_stage
       /\ ("da_output" \in DOMAIN out) <=> (model.training /\ EnabledGroups # {})

C12_Witness ==
  /\ pc = "forwarded" /\ model.dec_layers = 3 /\ model.aux_loss /\ model.two_stage
  /\ model.training /\ model.channel_align
  /\ Len(fwd.out["aux_outputs"]) = 2
  /\ fwd.out["aux_outputs"][2]["pred_boxes"].layer = 1
  /\ fwd.out["pred_logits"].layer = 2
  /\ "enc_outputs" \in DOMAIN fwd.out /\ "da_output" \in DOMAIN fwd.out
  /\ model.accumulate /\ "probs" \in DOMAIN fwd.out

\* the state is one build() produces: the standard losses, with 'masks' and
\* the segmentation head's pred_masks exactly when MODEL.MASKS is set
BuiltWithMasks == "pred_masks" \in DOMAIN outputs
BuildConsistent == criterion.losses = BuildLosses(BuiltWithMasks)
BuildCfg ==
  [AUX_LOSS |-> model.aux_loss, MASKS |-> BuiltWithMasks, DEC_LAYERS |-> model.dec_layers]
\* the emitted keys that do not begin with 'loss_'
NonLossKeys ==
  {"class_error", "cardinality_error"} \cup {Sfx("cardinality_error", sfx) : sfx \in SuffixSet}

\* C13 as stated: every key beginning with 'loss_' that forward emits for
\* the model built from a configuration has an entry in the weight_dict
\* build() makes from the same configuration.
C13_Original ==
  (Returned /\ BuildConsistent /\ SomeTargets) =>
    \A k \in Keys \ NonLossKeys : k \in DOMAIN BuildWeightDict(BuildCfg)

\* C14: the domain loss is focally reweighted exactly for the query-level
\* groups space_query, channel_query and instance_query, never for backbone.
C14_FocalScope ==
  pc = "done" =>
    /\ \A i \in 1..Len(res.da_calls) :
          res.da_calls[i].focal <=> (res.da_calls[i].group # "backbone")
    /\ Returned =>
          \A g \in AllGroups :
             ("loss_" \o g) \in Keys =>
                /\ res.losses["loss_" \o g].term = "loss_da"
                /\ res.losses["loss_" \o g].focal <=>
                      (g \in {"space_query", "channel_query", "instance_query"})

C14_Witness ==
  /\ Returned /\ "loss_backbone" \in Keys /\ "loss_space_query" \in Keys
  /\ ~res.losses["loss_backbone"].focal /\ res.losses["loss_space_query"].focal
  /\ Len(res.da_calls) = 2 /\ "probs" \in DOMAIN outputs

\* C19 as stated: with 'masks' requested and pred_masks in the final-stage
\* outputs the returned mapping holds loss_mask and loss_dice, each mapped
\* to its computed loss value.
C19_Original ==
  (Returned /\ SomeTargets /\ "masks" \in Requested /\ "pred_masks" \in DOMAIN outputs) =>
    \A k \in {"loss_mask", "loss_dice"} :
       /\ k \in Keys
       /\ res.losses[k].kind = "tensor" /\ res.losses[k].term = k

\* C20 as stated: for every model state, da_mode and criterion mode, each
\* matcher call gets as many images of predictions as target sets.
C20_Original ==
  (pc = "done" /\ SomeTargets) =>
    \A i \in CallsOf({"matcher"}, DecLayers \cup {EncLayer}) :
       Len(res.calls[i].images) = Len(res.calls[i].targets)

\* the number of labels of the mode-selected targets over all workers
TotalBoxes == SumLen(Selected, Len(Selected)) + world.others

\* C15: num_boxes equals max(S / world_size, 1), S the number of labels of
\* the mode-selected targets summed over all workers; it is always >= 1 (1
\* when no image has a target) and the same value is used by the main, every
\* auxiliary and the encoder stage.  res.nb is num_boxes * world_size.
C15_NumBoxes ==
  (pc = "done" /\ mode \in {"train", "test"}) =>
    /\ TotalBoxes >= world.world_size => res.nb = TotalBoxes
    /\ TotalBoxes < world.world_size => res.nb = world.world_size
    /\ res.nb >= world.world_size
    /\ \A i \in CallsOf(DetOps \ {"matcher"}, DecLayers \cup {EncLayer}) :
          res.calls[i].nb = res.nb

C15_Witness ==
  /\ Returned /\ world.world_size = 2 /\ world.others = 1
  /\ "probs" \in DOMAIN outputs /\ Len(Selected) = 2
  /\ SumLen(Selected, Len(Selected)) = 2 /\ res.nb = 3
  /\ CallsOf({"boxes"}, {EncLayer}) # {} /\ CallsOf({"labels"}, {0}) # {}
  /\ FinalLayer = 2

C15_WitnessNoTargets ==
  /\ Returned /\ world.world_size = 2 /\ TotalBoxes = 0 /\ res.nb = 2
  /\ Len(Selected) = 2

\* ---- C16
PPDone == pc = "pp_done" /\ pp.status = "ok"
PPQ == Cardinality(DOMAIN pp.outputs.pred_logits[1])
PPC == Cardinality(DOMAIN pp.outputs.pred_logits[1][0])
PPAccepted ==
  /\ Len(pp.outputs.pred_logits) = Len(pp.target_sizes)
  /\ \A b \in 1..Len(pp.target_sizes) : Len(pp.target_sizes[b]) = 2
  /\ PPQ * PPC >= TopK
\* the corners of the box of slot q of image b, scaled by (W, H, W, H)
PPCorners(b, q) ==
  LET x == pp.outputs.pred_boxes[b][q]
      H == pp.target_sizes[b][1]
      W == pp.target_sizes[b][2]
  IN  <<(x[1] - x[3] \div 2) * W, (x[2] - x[4] \div 2) * H,
        (x[1] + x[3] \div 2) * W, (x[2] + x[4] \div 2) * H>>

\* C16: with Q*C >= 100, PostProcess.forward returns per image exactly 100
\* aligned (score, label, box) entries taken from 100 pairwise distinct
\* flattened indices i in 0..Q*C-1, with label = i mod C, the box that of
\* slot i div C scaled by (W, H, W, H), in non-increasing score order.
C16_TopKSelection ==
  (pc = "pp_done" /\ PPAccepted) =>
    /\ pp.status = "ok"
    /\ Len(pp.results) = Len(pp.outputs.pred_logits)
    /\ \A b \in 1..Len(pp.results) :
         LET r == pp.results[b]
             idx == pp.topk_indexes[b]
         IN  /\ Len(r.scores) = TopK /\ Len(r.labels) = TopK /\ Len(r.boxes) = TopK
             /\ Len(idx) = TopK
             /\ \A k \in 1..TopK : idx[k] \in 0..(PPQ * PPC - 1)
             /\ \A k, l \in 1..TopK : k # l => idx[k] # idx[l]
             /\ \A k \in 1..TopK :
                  /\ r.labels[k] = idx[k] % PPC
                  /\ r.labels[k] \in 0..(PPC - 1)
                  /\ idx[k] \div PPC \in 0..(PPQ - 1)
                  /\ r.boxes[k] = PPCorners(b, idx[k] \div PPC)
                  /\ r.scores[k] =
                       Sigmoid(pp.outputs.pred_logits[b][idx[k] \div PPC][idx[k] % PPC])
             /\ \A k \in 1..(TopK - 1) : r.scores[k] >= r.scores[k + 1]
             /\ \A i \in 0..(PPQ * PPC - 1) :
                  (\A k \in 1..TopK : idx[k] # i) =>
                     Sigmoid(pp.outputs.pred_logits[b][i \div PPC][i % PPC])
                       <= r.scores[TopK]

\* two images of different sizes, more pairs than are kept, entries of one
\* image that differ in score, in label and in box, and two entries of equal
\* score returned with the higher index first
C16_Witness ==
  /\ PPDone
  /\ Len(pp.results) = 2
  /\ PPQ * PPC > TopK
  /\ pp.target_sizes[1] # pp.target_sizes[2]
  /\ pp.results[1].scores[1] > pp.results[1].scores[TopK]
  /\ \E k, l \in 1..TopK :
       /\ pp.results[2].labels[k] # pp.results[2].labels[l]
       /\ pp.results[2].boxes[k] # pp.results[2].boxes[l]
       /\ pp.topk_indexes[2][k] \div PPC = pp.topk_indexes[2][l] \div PPC + 1
  /\ \E k, l \in 1..TopK :
       /\ k < l
       /\ pp.results[1].scores[k] = pp.results[1].scores[l]
       /\ pp.topk_indexes[1][k] > pp.topk_indexes[1][l]

\* equal scores at the cut: a pair left out has the score of the last entry
C16_WitnessTieAtCut ==
  /\ PPDone
  /\ \E i \in 0..(PPQ * PPC - 1) :
       /\ \A k \in 1..TopK : pp.topk_indexes[1][k] # i
       /\ Sigmoid(pp.outputs.pred_logits[1][i \div PPC][i % PPC])
            = pp.results[1].scores[TopK]

\* target_sizes with three columns is rejected
C16_WitnessShape ==
  /\ pc = "pp_done" /\ pp.status = "AssertionError"
  /\ Len(pp.target_sizes) = Len(pp.outputs.pred_logits)

\* fewer than 100 (slot, class) pairs: topk raises
C16_WitnessTooFew == pc = "pp_done" /\ pp.status = "RuntimeError"

\* ---- C17
LabelsDone == pc = "labels_done"
Matched(b, q) == \E k \in 1..Len(lc.indices[b].src) : lc.indices[b].src[k] = q
MatchedLabel(b, q) ==
  LET k == CHOOSE k \in 1..Len(lc.indices[b].src) : lc.indices[b].src[k] = q
  IN  lc.targets[b].labels[lc.indices[b].tgt[k] + 1]
LabelsInRange ==
  \A b \in 1..Len(lc.targets) : \A j \in 1..Len(lc.targets[b].labels) :
     lc.targets[b].labels[j] \in 0..(LossClasses - 1)

\* C17: with num_classes equal to the class-logit length C and all labels in
\* 0..C-1, the one-hot target has C columns; a matched slot's row has exactly
\* one 1, at the label of its matched target; an unmatched slot's row is all
\* zeros.
C17_OneHotTarget ==
  (/\ LabelsDone /\ lc.num_classes = LossClasses /\ LabelsInRange
   /\ Len(lc.targets) > 0 /\ lc.batch = Len(lc.targets)) =>
    /\ lc.status = "ok"
    /\ \A b \in 1..Len(lc.targets) : \A q \in 0..(LossQueries - 1) :
         /\ DOMAIN lc.onehot[b][q] = 0..(LossClasses - 1)
         /\ Matched(b, q) =>
              \A c \in 0..(LossClasses - 1) :
                 lc.onehot[b][q][c] = (IF c = MatchedLabel(b, q) THEN 1 ELSE 0)
         /\ ~Matched(b, q) =>
              \A c \in 0..(LossClasses - 1) : lc.onehot[b][q][c] = 0

\* two images, one with two targets of different labels matched out of target
\* order, the other with an unmatched slot
C17_Witness ==
  /\ LabelsDone /\ lc.num_classes = LossClasses /\ lc.status = "ok"
  /\ Len(lc.targets) = 2
  /\ lc.targets[1].labels = <<2, 0>>
  /\ lc.indices[1].tgt = <<1, 0>>
  /\ lc.onehot[1][lc.indices[1].src[1]][0] = 1
  /\ \E q \in 0..(LossQueries - 1) : ~Matched(2, q)

\* no target set: torch.cat raises on the empty list of assignments
C17_WitnessNoTargetSet ==
  LabelsDone /\ Len(lc.targets) = 0 /\ lc.status = "RuntimeError"

\* a matched slot of an image beyond the batch of the logits
C17_WitnessBeyondBatch ==
  LabelsDone /\ lc.batch < Len(lc.targets) /\ lc.status = "IndexError"

\* with num_classes below the logit length the unmatched rows are not zero
C17_WitnessOtherNumClasses ==
  /\ LabelsDone /\ lc.num_classes = LossClasses - 1 /\ lc.status = "ok"
  /\ \E q \in 0..(LossQueries - 1) :
       ~Matched(1, q) /\ lc.onehot[1][q][LossClasses - 1] = 1

\* ---- C18
CardinalityDone == pc = "cardinality_done"
\* the slots of image b whose argmax is one of the classes 0..num_classes-1
RealClassSlots(b) ==
  {q \in 0..(LossQueries - 1) : Argmax(lc.pred_logits[b][q]) \in 0..(LossClasses - 1)}
Abs(x) == IF x >= 0 THEN x ELSE -x
RECURSIVE SumOver(_, _)
SumOver(f, n) == IF n = 0 THEN 0 ELSE SumOver(f, n - 1) + f[n]

\* C18: cardinality_error is the mean over images of |card_pred - number of
\* targets|, where a slot whose argmax is any real class 0..num_classes-1 is
\* counted in card_pred.
C18_Original ==
  CardinalityDone =>
    /\ lc.cardinality_error.den = Len(lc.pred_logits)
    /\ lc.cardinality_error.num =
         SumOver([b \in 1..Len(lc.pred_logits) |->
                    Abs(Cardinality(RealClassSlots(b)) - Len(lc.targets[b].labels))],
                 Len(lc.pred_logits))

\* ---- C21
\* C21 as stated: with return_indices set, the assignments returned next to
\* the loss mapping are those the matcher produced for the main (final-layer)
\* stage, whether or not aux_outputs or enc_outputs are present.
C21_Original ==
  (Returned /\ SomeTargets /\ criterion.return_indices) =>
    /\ res.indices.on = FinalLayer
    /\ res.indices = Matcher(outputs, Selected)

\* ---- C22
\* C22 as stated: with debug enabled forward completes and its output holds
\* pred_logits_all/pred_boxes_all, the unsplit full-batch final-layer
\* predictions, in every model state.
C22_Original ==
  (Forwarded /\ model.debug) =>
    /\ fwd.status = "ok"
    /\ {"pred_logits_all", "pred_boxes_all"} \subseteq DOMAIN fwd.out
    /\ fwd.out["pred_logits_all"] = Pred("class", FinalLayer, Range(batch))
    /\ fwd.out["pred_boxes_all"] = Pred("box", FinalLayer, Range(batch))

\* ---- C23
\* C23: SetCriterion.forward leaves the caller's target list and every
\* target's labels and boxes unchanged, in every mode and also when the
\* encoder stage binarizes labels.
C23_CallerUnchanged ==
  [][(pc \in {"forwarded", "all_reduce"}) => targets' = targets]_vars

\* a 'train' call that halved the list and ran the encoder stage on zeroed
\* labels, after which the caller still holds both targets with their labels
C23_Witness ==
  /\ Returned /\ mode = "train" /\ HasEnc
  /\ Len(targets) = 4 /\ Len(Selected) = 2 /\ model.accumulate
  /\ targets[1].labels = <<2, 1>> /\ targets[2].labels = <<2, 1>>
  /\ \E i \in CallsOf({"labels"}, {EncLayer}) :
       /\ Len(res.calls[i].targets) = 2
       /\ res.calls[i].targets[1].labels = <<0, 0>>
       /\ res.calls[i].targets[2].labels = <<0, 0>>
       /\ res.calls[i].targets[1].boxes = targets[1].boxes
       /\ res.calls[i].targets[2].boxes = targets[2].boxes

\* a call with an unsupported mode
C23_WitnessRejected ==
  pc = "done" /\ res.status = "NotImplementedError" /\ Len(targets) = 2

====
